---- MODULE Spec2Model ----
(***************************************************************************)
(* Model of the tool-calling orchestration loop of the requirements        *)
(* advisor client: call_llm_with_mcp_tools (backend/llm.py) driving a      *)
(* model provider (litellm.completion) and the shared MCPClient connector  *)
(* (backend/mcp_client.py).                                                *)
(*                                                                         *)
(* One step of the model is the code a run executes between two            *)
(* suspension points (await asyncio.to_thread(...), await call_tool(...)), *)
(* cut once more at every tool call of a round.                            *)
(*                                                                         *)
(* Optional values: a Python None in a text position is the string None;   *)
(* a Python None in a list position is the empty sequence (the code only   *)
(* ever tests such values for truthiness); an optional object is a         *)
(* sequence of length 0 or 1.                                              *)
(***************************************************************************)
EXTENDS Integers, Sequences, FiniteSets, TLC

VARIABLES
    pc,               \* position of each run in call_llm_with_mcp_tools
    provider,         \* argument provider
    messages,         \* argument messages (the caller's list)
    tools,            \* argument tools
    mcp_client,       \* argument mcp_client: None or Client
    max_iterations,   \* argument max_iterations
    iteration,        \* index of the for loop of llm.py:121
    current_messages, \* local current_messages (the transcript)
    tool_calls,       \* assistant_message.tool_calls of the round in progress
    tool_index,       \* position of the inner for loop of llm.py:144
    inflight,         \* the awaited mcp_client.call_tool of llm.py:158
    result,           \* value returned by the run
    raised,           \* exception propagated by the run
    completions,      \* every litellm.completion call of the run, with its response
    session,          \* MCPClient.session
    tools_cache,      \* MCPClient._tools_cache
    _server_url,      \* MCPClient._server_url
    _exit_stack,      \* MCPClient._exit_stack: the contexts entered and not closed
    mcp_calls,        \* every session.call_tool issued through the connector
    conn_log,         \* the operations called on the connector, with their outcomes
    mcp_tools,        \* argument of mcp_to_litellm_tools
    litellm_tools,    \* value returned by mcp_to_litellm_tools, once called
    chat_pc,          \* position of each request in the chat handler
    request,          \* ChatRequest of each request
    was_redirected,   \* local was_redirected of chat
    content_filtered, \* local content_filtered of chat
    response_text,    \* local response_text of chat
    http_response,    \* what the handler answered
    guardrails_enabled, \* settings.guardrails_enabled
    st_messages,      \* st.session_state.messages of the chat UI
    st_session_id,    \* st.session_state.session_id of the chat UI
    sessions,         \* rows of table sessions
    chat_messages,    \* rows of table chat_messages, in order of insertion
    now,              \* the clock read by _utc_now, in days
    last_cleanup      \* the last call of cleanup_expired_sessions, as it found the tables

vars == <<pc, provider, messages, tools, mcp_client, max_iterations, iteration,
          current_messages, tool_calls, tool_index, inflight, result, raised,
          completions, session, tools_cache, _server_url, _exit_stack, mcp_calls, conn_log,
          mcp_tools, litellm_tools, chat_pc, request, was_redirected,
          content_filtered, response_text, http_response, guardrails_enabled,
          st_messages, st_session_id, sessions, chat_messages, now, last_cleanup>>

runVars == <<pc, iteration, current_messages, tool_calls, tool_index, inflight,
             result, raised, completions>>

argVars == <<provider, messages, tools, mcp_client, max_iterations>>

connVars == <<session, tools_cache, _server_url, _exit_stack>>

translatorVars == <<mcp_tools, litellm_tools>>

uiVars == <<st_messages, st_session_id>>

chatVars == <<chat_pc, request, was_redirected, content_filtered, response_text,
              http_response, guardrails_enabled, uiVars>>

dbVars == <<sessions, chat_messages, now, last_cleanup>>

\* what neither a run nor the connector's state is
restVars == <<conn_log, translatorVars, chatVars, dbVars>>

\* what the connector's operations leave alone
notConnVars == <<runVars, argVars, translatorVars, chatVars, dbVars>>

\* what mcp_to_litellm_tools leaves alone
notTranslatorVars == <<runVars, argVars, connVars, mcp_calls, conn_log, chatVars, dbVars>>

----------------------------------------------------------------------------
(* Bounds of the model *)

MaxIterations == 2

MaxChatRounds == 1

MaxHistory == 11

----------------------------------------------------------------------------
(* Values *)

None == "<None>"

Client == "MCPClient"

Runs == {1, 2}

Some(x) == <<x>>

Nothing == <<>>

Last(s) == s[Len(s)]

MODEL_MAP ==
    [claude |-> "anthropic/claude-sonnet-4-20250514",
     openai |-> "gpt-4o",
     gemini |-> "gemini/gemini-2.5-flash"]

ProviderInputs == {"claude", "not-a-real-provider"}

UnsupportedProvider == "ValueError: Unsupported provider"

ModelInvocationError == "Exception: litellm.completion failed"

RateLimitError == "RateLimitError: Rate limit reached"

AuthenticationError == "AuthenticationError: Invalid API Key"

QuotaError == "APIError: insufficient_quota"

\* what litellm.completion may raise
ModelFailures == {ModelInvocationError, RateLimitError, AuthenticationError, QuotaError}

NotConnectedError == "RuntimeError: Not connected to MCP server"

Message(role, content, calls, call_id) ==
    [role |-> role, content |-> content, tool_calls |-> calls, tool_call_id |-> call_id]

SystemMessage == Message("system", "SYSTEM_MESSAGE", <<>>, None)

UserMessage(text) == Message("user", text, <<>>, None)

SeedTranscripts ==
    { <<SystemMessage, UserMessage("hello"),
        Message("assistant", "hi", <<>>, None),
        UserMessage("What is EARS notation?")>> }

\* a tool descriptor of the server: name, description (or None), inputSchema
Tool(name, description, inputSchema) ==
    [name |-> name, description |-> description, inputSchema |-> inputSchema]

QuerySchema == "{\"type\": \"object\", \"properties\": {\"query\": {\"type\": \"string\"}}}"

EmptySchema == "{}"

Catalog ==
    << Tool("search_requirements", "Search for requirements guidance", QuerySchema),
       Tool("lookup_term", None, EmptySchema) >>

\* faulty variant: a descriptor whose name was seen before is dropped
mcp_to_litellm_tools_Dedup(mcp_tools_arg) ==
    LET kept == SelectSeq([i \in 1..Len(mcp_tools_arg) |-> <<i, mcp_tools_arg[i]>>],
                          LAMBDA p : \A j \in 1..(p[1] - 1) :
                                        mcp_tools_arg[j].name # p[2].name)
    IN [i \in 1..Len(kept) |->
          [type |-> "function",
           function |-> [name |-> kept[i][2].name,
                         description |-> IF kept[i][2].description \in {None, ""}
                                         THEN "" ELSE kept[i][2].description,
                         parameters |-> kept[i][2].inputSchema]]]

\* llm.py:47-58
mcp_to_litellm_tools(mcp_tools_arg) ==
    [i \in 1..Len(mcp_tools_arg) |->
       [type |-> "function",
        function |-> [name |-> mcp_tools_arg[i].name,
                      description |-> IF mcp_tools_arg[i].description \in {None, ""}
                                      THEN "" ELSE mcp_tools_arg[i].description,
                      parameters |-> mcp_tools_arg[i].inputSchema]]]

ToolSchemaLists == { <<>>, mcp_to_litellm_tools(Catalog) }

ServerUrl == "https://test.example.com/mcp"

ToolCall(id, name, arguments) == [id |-> id, name |-> name, arguments |-> arguments]

ToolCallPool ==
    { ToolCall("call_1", "search_requirements", "{\"query\": \"ears\"}"),
      ToolCall("call_2", "lookup_term", "not json") }

\* the non-empty sequences of distinct calls of the pool
ToolCallSeqs ==
    { <<a>> : a \in ToolCallPool } \cup
    { s \in { <<a, b>> : a \in ToolCallPool, b \in ToolCallPool } : s[1] # s[2] }

Text(n) == "text " \o ToString(n)

\* what the provider may answer to the n-th completion call of a run: a text
\* tagged with n, an empty text or no text, and, when the call offers tool
\* schemas, tool calls with or without a text
ModelResponses(n, offered) ==
    { [content |-> c, tool_calls |-> <<>>, raised |-> FALSE] : c \in {None, "", Text(n)} } \cup
    { [content |-> c, tool_calls |-> tcs, raised |-> FALSE] :
        c \in {None, Text(n)},
        tcs \in IF offered # <<>> THEN ToolCallSeqs ELSE {} }

\* the response slot of a completion call that raised
NoResponse == [content |-> None, tool_calls |-> <<>>, raised |-> TRUE]

TextBlock(t) == [type |-> "text", text |-> t]

ImageBlock == [type |-> "image", text |-> None]

\* what session.call_tool may return
ToolResults ==
    { [content |-> <<TextBlock("EARS is"), ImageBlock, TextBlock("a notation")>>] }

ToolFailures == {"timeout"}

----------------------------------------------------------------------------
(* Pure functions of llm.py *)

\* faulty variant: an unknown key falls back to a default model
ModelFor_Default(p) == IF p \in DOMAIN MODEL_MAP THEN MODEL_MAP[p] ELSE MODEL_MAP["claude"]

\* llm.py:113: MODEL_MAP.get(provider)
ModelFor(p) == IF p \in DOMAIN MODEL_MAP THEN MODEL_MAP[p] ELSE None

\* faulty variant: the schemas are read from the connector's catalog at every call
OfferedTools_FromCache(t) ==
    IF tools_cache # <<>> THEN <<mcp_to_litellm_tools(tools_cache[1])>> ELSE <<>>

\* llm.py:129: tools if tools else None
OfferedTools(t) == IF t # <<>> THEN Some(t) ELSE Nothing

ToolChoice(t) == IF t # <<>> THEN "auto" ELSE None

\* faulty variant: one iteration too many
LoopContinues_OffByOne(i, max) == i <= max

\* llm.py:121: for iteration in range(max_iterations)
LoopContinues(i, max) == i < max

\* faulty variant: the loop index does not advance
NextIteration_Stuck(i) == i

\* llm.py:121: the next value of range(max_iterations)
NextIteration(i) == i + 1

\* faulty variant: a text that comes with tool calls is taken as the answer
HasToolCalls_TextFirst(response) == response.tool_calls # <<>> /\ response.content = None

\* llm.py:136: the negation of not assistant_message.tool_calls
HasToolCalls(response) == response.tool_calls # <<>>

\* faulty variant: the content is returned as it is
FinalText_Raw(content) == content

\* llm.py:138 and 180: content or ""
FinalText(content) == IF content = None \/ content = "" THEN "" ELSE content

\* faulty variant: the message is appended without its tool calls
AssistantMessage_NoCalls(response) == Message("assistant", response.content, <<>>, None)

\* llm.py:141
AssistantMessage(response) ==
    Message("assistant", response.content, response.tool_calls, None)

\* json.loads on the raw argument texts of the model: the dict read, as the
\* set of its <<key, value>> pairs, or a JSONDecodeError
JsonLoads(raw) ==
    CASE raw = "{\"query\": \"ears\"}" ->
            [JSONDecodeError |-> FALSE, value |-> {<<"query", "ears">>}]
      [] raw = "{}" -> [JSONDecodeError |-> FALSE, value |-> {}]
      [] OTHER -> [JSONDecodeError |-> TRUE, value |-> {}]

\* faulty variant: unparseable arguments are handed on as a raw text
ParseArguments_KeepRaw(raw) ==
    IF JsonLoads(raw).JSONDecodeError THEN {<<"raw", raw>>} ELSE JsonLoads(raw).value

\* llm.py:149-153
ParseArguments(raw) ==
    IF JsonLoads(raw).JSONDecodeError THEN {} ELSE JsonLoads(raw).value

RECURSIVE JoinLines(_)
JoinLines(texts) ==
    IF texts = <<>> THEN ""
    ELSE IF Len(texts) = 1 THEN texts[1]
    ELSE texts[1] \o "\n" \o JoinLines(Tail(texts))

extract_tool_result(res) ==
    JoinLines(SelectSeq([i \in 1..Len(res.content) |-> res.content[i].text],
                        LAMBDA t : t # None))

NotConnectedResult == "Error: MCP client not connected"

ToolErrorResult(cause) == "Error calling tool: " \o cause

\* faulty variant: the tool result is tagged with the tool's name
ToolMessage_NameAsId(tool_call, tool_result) ==
    Message("tool", tool_result, <<>>, tool_call.name)

\* llm.py:167-171
ToolMessage(tool_call, tool_result) ==
    Message("tool", tool_result, <<>>, tool_call.id)

----------------------------------------------------------------------------
(* MCPClient *)

is_connected == session # None

\* faulty variant: the connection state is not looked at
ClientUsable_NoConnectionCheck(client) == client # None

\* the test of llm.py:156
ClientUsable(client) == client # None /\ is_connected

\* MCPClient.server_url
server_url == IF is_connected THEN _server_url ELSE None

\* faulty variant: the cached catalog survives
ClearState_KeepsCache ==
    /\ _exit_stack' = <<>>
    /\ session' = None
    /\ _server_url' = None
    /\ UNCHANGED tools_cache

\* mcp_client.py:171-174: aclose closes every context of the stack
ClearState ==
    /\ _exit_stack' = <<>>
    /\ session' = None
    /\ tools_cache' = Nothing
    /\ _server_url' = None

\* the two contexts a connect enters, in their order (mcp_client.py:89-96)
Transport == "streamablehttp_client"

RemoteSession == "ClientSession"

\* mcp_client.py:37-42
NeverConnected ==
    /\ session = None
    /\ tools_cache = Nothing
    /\ _server_url = None
    /\ _exit_stack = <<>>

\* the connector after the connect of main.py:82-84
ConnectedAtStartup ==
    /\ session = "session"
    /\ tools_cache = Some(Catalog)
    /\ _server_url = ServerUrl
    /\ _exit_stack = <<Transport, RemoteSession>>

\* MCPClient.disconnect, called while runs are under way (main.py:97-98)
Disconnect ==
    /\ ClearState
    /\ UNCHANGED <<runVars, argVars, mcp_calls, restVars>>

----------------------------------------------------------------------------
(* call_llm_with_mcp_tools *)

NoResult == [content |-> <<>>]

Idle == [status |-> "none", result |-> NoResult, cause |-> None]

Pending == [status |-> "pending", result |-> NoResult, cause |-> None]

Returned(res) == [status |-> "returned", result |-> res, cause |-> None]

Raised(cause) == [status |-> "raised", result |-> NoResult, cause |-> cause]

\* llm.py:113-119
Start(r) ==
    /\ pc[r] = "start"
    /\ IF ModelFor(provider[r]) = None
       THEN /\ raised' = [raised EXCEPT ![r] = UnsupportedProvider]
            /\ pc' = [pc EXCEPT ![r] = "raised"]
            /\ UNCHANGED current_messages
       ELSE /\ current_messages' = [current_messages EXCEPT ![r] = messages[r]]
            /\ pc' = [pc EXCEPT ![r] = "loop"]
            /\ UNCHANGED raised
    /\ UNCHANGED <<iteration, tool_calls, tool_index, inflight, result, completions,
                   argVars, restVars, connVars, mcp_calls>>

Completion(r, offered, choice, response) ==
    [model |-> ModelFor(provider[r]), messages |-> current_messages[r],
     tools |-> offered, tool_choice |-> choice, response |-> response]

\* a run of at most MaxIterations iterations is followed through all of
\* them; in a longer run the provider asks for tools in at most
\* MaxChatRounds completion calls
RoundsLeft(r) ==
    max_iterations[r] <= MaxIterations \/ Len(completions[r]) < MaxChatRounds

\* llm.py:121-141: one completion call inside the loop and what follows its
\* response up to the first tool call
InvokeModel(r) ==
    /\ pc[r] = "loop"
    /\ LoopContinues(iteration[r], max_iterations[r])
    /\ \E response \in ModelResponses(Len(completions[r]) + 1,
                                       IF RoundsLeft(r) THEN OfferedTools(tools[r]) ELSE Nothing) :
        /\ completions' = [completions EXCEPT ![r] =
              Append(@, Completion(r, OfferedTools(tools[r]), ToolChoice(tools[r]), response))]
        /\ IF ~HasToolCalls(response)
           THEN /\ result' = [result EXCEPT ![r] = FinalText(response.content)]
                /\ pc' = [pc EXCEPT ![r] = "done"]
                /\ UNCHANGED <<current_messages, tool_calls, tool_index>>
           ELSE /\ current_messages' = [current_messages EXCEPT ![r] =
                      Append(@, AssistantMessage(response))]
                /\ tool_calls' = [tool_calls EXCEPT ![r] = response.tool_calls]
                /\ tool_index' = [tool_index EXCEPT ![r] = 1]
                /\ pc' = [pc EXCEPT ![r] = "tools"]
                /\ UNCHANGED result
    /\ UNCHANGED <<iteration, inflight, raised, argVars, restVars, connVars, mcp_calls>>

\* llm.py:173-180: the completion call after the loop
ForcedFinal(r) ==
    /\ pc[r] = "loop"
    /\ ~LoopContinues(iteration[r], max_iterations[r])
    /\ \E response \in ModelResponses(Len(completions[r]) + 1, Nothing) :
        /\ completions' = [completions EXCEPT ![r] =
              Append(@, Completion(r, Nothing, None, response))]
        /\ result' = [result EXCEPT ![r] = FinalText(response.content)]
    /\ pc' = [pc EXCEPT ![r] = "done"]
    /\ UNCHANGED <<iteration, current_messages, tool_calls, tool_index, inflight, raised,
                   argVars, restVars, connVars, mcp_calls>>

\* an exception of litellm.completion (llm.py:125 or llm.py:175) is not caught
ModelRaises(r) ==
    /\ pc[r] = "loop"
    /\ completions' = [completions EXCEPT ![r] =
          Append(@, IF LoopContinues(iteration[r], max_iterations[r])
                    THEN Completion(r, OfferedTools(tools[r]), ToolChoice(tools[r]), NoResponse)
                    ELSE Completion(r, Nothing, None, NoResponse))]
    /\ \E cause \in ModelFailures : raised' = [raised EXCEPT ![r] = cause]
    /\ pc' = [pc EXCEPT ![r] = "raised"]
    /\ UNCHANGED <<iteration, current_messages, tool_calls, tool_index, inflight, result,
                   argVars, restVars, connVars, mcp_calls>>

\* faulty variant: the tool result is kept aside and the loop goes on
AppendToolResult_NotAppended(r, tool_result) ==
    /\ UNCHANGED current_messages
    /\ IF tool_index[r] < Len(tool_calls[r])
       THEN /\ tool_index' = [tool_index EXCEPT ![r] = @ + 1]
            /\ pc' = [pc EXCEPT ![r] = "tools"]
            /\ UNCHANGED iteration
       ELSE /\ tool_index' = [tool_index EXCEPT ![r] = 0]
            /\ iteration' = [iteration EXCEPT ![r] = NextIteration(@)]
            /\ pc' = [pc EXCEPT ![r] = "loop"]

\* faulty variant: the runs append to one list
AppendToolResult_SharedList(r, tool_result) ==
    /\ current_messages' =
          [q \in Runs |->
              IF q = r \/ pc[q] \in {"loop", "tools", "in_call"}
              THEN Append(current_messages[q],
                          ToolMessage(tool_calls[r][tool_index[r]], tool_result))
              ELSE current_messages[q]]
    /\ IF tool_index[r] < Len(tool_calls[r])
       THEN /\ tool_index' = [tool_index EXCEPT ![r] = @ + 1]
            /\ pc' = [pc EXCEPT ![r] = "tools"]
            /\ UNCHANGED iteration
       ELSE /\ tool_index' = [tool_index EXCEPT ![r] = 0]
            /\ iteration' = [iteration EXCEPT ![r] = NextIteration(@)]
            /\ pc' = [pc EXCEPT ![r] = "loop"]

\* faulty variant: the result of a call is dropped when the connector has
\* gone meanwhile
AppendToolResult_UnlessDisconnected(r, tool_result) ==
    /\ current_messages' = [current_messages EXCEPT ![r] =
          IF inflight[r].status = "none" \/ is_connected
          THEN Append(@, ToolMessage(tool_calls[r][tool_index[r]], tool_result))
          ELSE @]
    /\ IF tool_index[r] < Len(tool_calls[r])
       THEN /\ tool_index' = [tool_index EXCEPT ![r] = @ + 1]
            /\ pc' = [pc EXCEPT ![r] = "tools"]
            /\ UNCHANGED iteration
       ELSE /\ tool_index' = [tool_index EXCEPT ![r] = 0]
            /\ iteration' = [iteration EXCEPT ![r] = NextIteration(@)]
            /\ pc' = [pc EXCEPT ![r] = "loop"]

\* llm.py:166-171 and the two loop headers: the tool result is appended, then
\* the inner loop goes to its next call or the outer loop to its next iteration
AppendToolResult(r, tool_result) ==
    /\ current_messages' = [current_messages EXCEPT ![r] =
          Append(@, ToolMessage(tool_calls[r][tool_index[r]], tool_result))]
    /\ IF tool_index[r] < Len(tool_calls[r])
       THEN /\ tool_index' = [tool_index EXCEPT ![r] = @ + 1]
            /\ pc' = [pc EXCEPT ![r] = "tools"]
            /\ UNCHANGED iteration
       ELSE /\ tool_index' = [tool_index EXCEPT ![r] = 0]
            /\ iteration' = [iteration EXCEPT ![r] = NextIteration(@)]
            /\ pc' = [pc EXCEPT ![r] = "loop"]

\* llm.py:144-164: one tool call up to the await of call_tool, or, without a
\* usable connector, up to its tool result.  MCPClient.call_tool (149-155)
\* runs up to session.call_tool without suspension.
ExecuteTool(r) ==
    /\ pc[r] = "tools"
    /\ LET tool_call == tool_calls[r][tool_index[r]]
           tool_args == ParseArguments(tool_call.arguments)
       IN IF ClientUsable(mcp_client[r])
          THEN /\ IF is_connected
                  THEN /\ mcp_calls' = Append(mcp_calls,
                              [run |-> r, name |-> tool_call.name, arguments |-> tool_args,
                               tool_call |-> tool_call])
                       /\ inflight' = [inflight EXCEPT ![r] = Pending]
                  ELSE /\ inflight' = [inflight EXCEPT ![r] =
                              Raised(NotConnectedError)]
                       /\ UNCHANGED mcp_calls
               /\ pc' = [pc EXCEPT ![r] = "in_call"]
               /\ UNCHANGED <<iteration, current_messages, tool_index>>
          ELSE /\ AppendToolResult(r, NotConnectedResult)
               /\ UNCHANGED <<inflight, mcp_calls>>
    /\ UNCHANGED <<tool_calls, result, raised, completions, argVars, restVars, connVars>>

\* session.call_tool (mcp_client.py:155) completes: it returns a result or
\* raises, whether or not the connector was disconnected meanwhile
SessionCallCompletes(r) ==
    /\ pc[r] = "in_call"
    /\ inflight[r] = Pending
    /\ \/ \E res \in ToolResults :
            inflight' = [inflight EXCEPT ![r] = Returned(res)]
       \/ \E cause \in ToolFailures :
            inflight' = [inflight EXCEPT ![r] = Raised(cause)]
    /\ UNCHANGED <<pc, iteration, current_messages, tool_calls, tool_index, result, raised,
                   completions, argVars, restVars, connVars, mcp_calls>>

\* llm.py:158-162: the outcome of the awaited call as a tool result text
ToolResultOf(call) ==
    IF call.status = "returned"
    THEN extract_tool_result(call.result)
    ELSE ToolErrorResult(call.cause)

\* faulty variant: only the connector's own RuntimeError is caught
ExceptionCaught_RuntimeErrorOnly(cause) == cause = NotConnectedError

\* llm.py:160: except Exception catches whatever call_tool raises
ExceptionCaught(cause) == TRUE

\* llm.py:158-171: the run resumes after the await
ResumeAfterCall(r) ==
    /\ pc[r] = "in_call"
    /\ inflight[r].status \in {"returned", "raised"}
    /\ IF inflight[r].status = "raised" /\ ~ExceptionCaught(inflight[r].cause)
       THEN /\ raised' = [raised EXCEPT ![r] = inflight[r].cause]
            /\ pc' = [pc EXCEPT ![r] = "raised"]
            /\ UNCHANGED <<iteration, current_messages, tool_index>>
       ELSE /\ AppendToolResult(r, ToolResultOf(inflight[r]))
            /\ UNCHANGED raised
    /\ inflight' = [inflight EXCEPT ![r] = Idle]
    /\ UNCHANGED <<tool_calls, result, completions, argVars, restVars, connVars, mcp_calls>>

RunNext(r) ==
    \/ Start(r)
    \/ InvokeModel(r)
    \/ ForcedFinal(r)
    \/ ModelRaises(r)
    \/ ExecuteTool(r)
    \/ SessionCallCompletes(r)
    \/ ResumeAfterCall(r)

----------------------------------------------------------------------------
(* One run against the shared connector, which may be disconnected at any   *)
(* time (main.py:97-98)                                                     *)

TranslatorIdle ==
    /\ mcp_tools = <<>>
    /\ litellm_tools = Nothing

NoRequest == [message |-> None, session_id |-> None, provider |-> None, history |-> <<>>]

NoBody == [response |-> None, session_id |-> None, tools_used |-> <<>>]

NotAnswered == [status_code |-> 0, detail |-> None, body |-> NoBody]

\* frontend/app.py:443-446
UiFresh ==
    /\ st_messages = <<>>
    /\ st_session_id = None

\* no request is being handled; config.py:42
ChatIdle ==
    /\ chat_pc = [c \in Runs |-> "off"]
    /\ request = [c \in Runs |-> NoRequest]
    /\ was_redirected = [c \in Runs |-> FALSE]
    /\ content_filtered = [c \in Runs |-> FALSE]
    /\ response_text = [c \in Runs |-> None]
    /\ http_response = [c \in Runs |-> NotAnswered]
    /\ guardrails_enabled = TRUE
    /\ UiFresh

NoCleanup == [days |-> 0, at |-> 0, sessions |-> {}, chat_messages |-> <<>>, deleted |-> {}]

\* database.py:106-118: the tables as init_db creates them
DbEmpty ==
    /\ sessions = {}
    /\ chat_messages = <<>>
    /\ now = 0
    /\ last_cleanup = NoCleanup

RunOff(r) ==
    /\ pc[r] = "off"
    /\ provider[r] = "claude"
    /\ messages[r] = <<>>
    /\ tools[r] = <<>>
    /\ mcp_client[r] = None
    /\ max_iterations[r] = 0

RunFresh(r) ==
    /\ iteration[r] = 0
    /\ current_messages[r] = <<>>
    /\ tool_calls[r] = <<>>
    /\ tool_index[r] = 0
    /\ inflight[r] = Idle
    /\ result[r] = None
    /\ raised[r] = None
    /\ completions[r] = <<>>

TypeShape ==
    /\ pc \in [Runs -> {"off", "start"}]
    /\ provider \in [Runs -> ProviderInputs]
    /\ messages \in [Runs -> SeedTranscripts \cup {<<>>}]
    /\ tools \in [Runs -> ToolSchemaLists]
    /\ mcp_client \in [Runs -> {None, Client}]
    /\ max_iterations \in [Runs -> 0..MaxIterations]
    /\ iteration \in [Runs -> {0}]
    /\ current_messages \in [Runs -> {<<>>}]
    /\ tool_calls \in [Runs -> {<<>>}]
    /\ tool_index \in [Runs -> {0}]
    /\ inflight \in [Runs -> {Idle}]
    /\ result \in [Runs -> {None}]
    /\ raised \in [Runs -> {None}]
    /\ completions \in [Runs -> {<<>>}]

Init ==
    /\ TypeShape
    /\ pc[1] = "start"
    /\ messages[1] \in SeedTranscripts
    /\ RunOff(2)
    /\ \A r \in Runs : RunFresh(r)
    /\ \/ NeverConnected
       \/ ConnectedAtStartup
    /\ mcp_calls = <<>>
    /\ conn_log = <<>>
    /\ TranslatorIdle
    /\ ChatIdle
    /\ DbEmpty

Next ==
    \/ \E r \in Runs : RunNext(r)
    \/ Disconnect

Spec == Init /\ [][Next]_vars

\* a run whose awaited completion or call_tool has ended is resumed by the
\* event loop, and every completion and every call_tool ends
FairSpec ==
    /\ Init
    /\ [][Next]_vars
    /\ \A r \in Runs : WF_vars(RunNext(r))

----------------------------------------------------------------------------
(* Properties of call_llm_with_mcp_tools *)

RegisteredKeys == {"claude", "openai", "gemini"}

CarriesToolCalls(response) == ~response.raised /\ response.tool_calls # <<>>

IsToolRequest(m) == m.role = "assistant" /\ m.tool_calls # <<>>

\* the run is between the assistant message of a round and its last tool result
InRound(r) == pc[r] \in {"tools", "in_call"}

\* the position of the last tool request of the transcript
LastRequest(r) ==
    LET cm == current_messages[r]
        ps == {p \in 1..Len(cm) : IsToolRequest(cm[p])}
    IN IF ps = {} THEN 0 ELSE CHOOSE p \in ps : \A q \in ps : q <= p

\* how many tool results the tool request at position p must have by now
ResultsDue(r, p) ==
    IF InRound(r) /\ p = LastRequest(r)
    THEN tool_index[r] - 1
    ELSE Len(current_messages[r][p].tool_calls)

\* the tool request at position p is followed by exactly its due tool
\* results, the k-th one carrying the id of the k-th call
RequestAnswered(r, p) ==
    LET cm == current_messages[r]
        due == ResultsDue(r, p)
    IN /\ p + due <= Len(cm)
       /\ \A k \in 1..due :
            /\ cm[p + k].role = "tool"
            /\ cm[p + k].tool_call_id = cm[p].tool_calls[k].id
       /\ p + due < Len(cm) => cm[p + due + 1].role # "tool"
       /\ (InRound(r) /\ p = LastRequest(r)) => p + due = Len(cm)

NoConnectorCall(r) == \A i \in 1..Len(mcp_calls) : mcp_calls[i].run # r

\* C1: every tool request of N >= 1 calls is directly followed in the
\* transcript by exactly N tool messages, the k-th carrying the id of the
\* k-th call, whatever the outcome of each call (in a round in progress, by
\* the results of the calls processed so far).
C1_OneResultPerCall ==
    \A r \in Runs : \A p \in 1..Len(current_messages[r]) :
        IsToolRequest(current_messages[r][p]) => RequestAnswered(r, p)

\* a finished round of two calls: the first call failed in the connector, the
\* connector was gone for the second, whose arguments were unparseable
C1_Witness ==
    \E p \in 1..Len(current_messages[1]) :
        /\ pc[1] = "loop"
        /\ IsToolRequest(current_messages[1][p])
        /\ Len(current_messages[1][p].tool_calls) = 2
        /\ p + 2 = Len(current_messages[1])
        /\ current_messages[1][p + 1].content = "Error calling tool: timeout"
        /\ current_messages[1][p + 2].content = "Error: MCP client not connected"
        /\ current_messages[1][p + 2].tool_call_id = "call_2"

\* the run returned after max_iterations tool rounds and one forced completion
RoundsThenForced(r) ==
    LET n == max_iterations[r]
        c == completions[r]
    IN /\ Len(c) = n + 1
       /\ \A i \in 1..n : CarriesToolCalls(c[i].response)
       /\ Cardinality({p \in 1..Len(current_messages[r]) :
                          IsToolRequest(current_messages[r][p])}) = n
       /\ c[n + 1].tools = <<>>
       /\ result[r] = (IF c[n + 1].response.content = None
                       THEN "" ELSE c[n + 1].response.content)
       /\ ~ENABLED RunNext(r)

ToolRequestsWheneverOffered(r) ==
    \A i \in 1..Len(completions[r]) :
        completions[r][i].tools # <<>> => CarriesToolCalls(completions[r][i].response)

\* C2 as stated: when the model returns tool requests on every invocation
\* that offers tools, a run with max_iterations = N >= 1 performs exactly N
\* tool rounds, then one forced invocation whose text it returns, and nothing
\* after it.
C2_AsStated ==
    \A r \in Runs :
        (pc[r] = "done" /\ max_iterations[r] >= 1 /\ ToolRequestsWheneverOffered(r))
            => RoundsThenForced(r)

\* C2, amended: the same for a run that was given at least one tool schema.
C2_IterationBound ==
    \A r \in Runs :
        (pc[r] = "done" /\ max_iterations[r] >= 1 /\ tools[r] # <<>>
            /\ ToolRequestsWheneverOffered(r))
            => RoundsThenForced(r)

C2_Witness ==
    /\ pc[1] = "done"
    /\ max_iterations[1] = 2
    /\ tools[1] # <<>>
    /\ Len(completions[1]) = 3
    /\ CarriesToolCalls(completions[1][1].response)
    /\ CarriesToolCalls(completions[1][2].response)
    /\ result[1] = "text 3"

\* C3: a run whose provider key is not registered ends with the
\* unsupported-provider error, with no completion call and no connector call.
C3_UnsupportedProvider ==
    \A r \in Runs :
        (provider[r] \notin RegisteredKeys /\ pc[r] \notin {"off", "start"})
            => /\ pc[r] = "raised"
               /\ raised[r] = UnsupportedProvider
               /\ completions[r] = <<>>
               /\ NoConnectorCall(r)
               /\ inflight[r].status = "none"

C3_Witness ==
    /\ provider[1] = "not-a-real-provider"
    /\ pc[1] = "raised"
    /\ session # None
    /\ mcp_client[1] # None

\* C4: a response of the loop that carries a text and tool calls is a tool
\* request: its calls are written to the transcript and executed, the run
\* does not return before the model was invoked again, and its text is never
\* the result of the run.
C4_ToolCallsTakePrecedence ==
    \A r \in Runs : \A i \in 1..Len(completions[r]) :
        LET response == completions[r][i].response IN
        (CarriesToolCalls(response) /\ response.content \notin {None, ""})
            => /\ result[r] # response.content
               /\ \E p \in 1..Len(current_messages[r]) :
                    /\ IsToolRequest(current_messages[r][p])
                    /\ current_messages[r][p].tool_calls = response.tool_calls
               /\ pc[r] = "done" => i < Len(completions[r])
               /\ i = Len(completions[r]) => (InRound(r) \/ pc[r] = "loop")

C4_Witness ==
    /\ pc[1] = "done"
    /\ Len(completions[1]) = 2
    /\ CarriesToolCalls(completions[1][1].response)
    /\ completions[1][1].response.content = "text 1"
    /\ result[1] = "text 2"
    /\ ~NoConnectorCall(1)

\* C5: when the first response of a run carries no tool call, the run has
\* returned that response's text, the empty string when there is none, after
\* one completion call and without any connector call.
C5_ImmediateAnswer ==
    \A r \in Runs :
        (Len(completions[r]) >= 1
            /\ ~completions[r][1].response.raised
            /\ completions[r][1].response.tool_calls = <<>>)
            => /\ pc[r] = "done"
               /\ result[r] # None
               /\ result[r] = (IF completions[r][1].response.content = None
                               THEN "" ELSE completions[r][1].response.content)
               /\ Len(completions[r]) = 1
               /\ NoConnectorCall(r)

C5_Witness ==
    /\ pc[1] = "done"
    /\ max_iterations[1] >= 1
    /\ tools[1] # <<>>
    /\ Len(completions[1]) = 1
    /\ completions[1][1].response.content = None
    /\ result[1] = ""

\* run r takes a step
RunStepped(r) ==
    \/ pc'[r] # pc[r]
    \/ current_messages'[r] # current_messages[r]
    \/ inflight'[r] # inflight[r]

CurrentCall(r) == tool_calls[r][tool_index[r]]

\* after the tool result of the current call, the run is at the next call of
\* the round, or at the next completion call when the round is over
GoesOn(r) ==
    IF tool_index[r] < Len(tool_calls[r])
    THEN pc'[r] = "tools" /\ tool_index'[r] = tool_index[r] + 1
    ELSE pc'[r] = "loop"

ResultAppended(r, text) ==
    current_messages'[r] = Append(current_messages[r],
        [role |-> "tool", content |-> text, tool_calls |-> <<>>,
         tool_call_id |-> CurrentCall(r).id])

C6_Step(r) ==
    (pc[r] = "tools" /\ (mcp_client[r] = None \/ session = None) /\ RunStepped(r))
        => /\ mcp_calls' = mcp_calls
           /\ inflight'[r].status = "none"
           /\ ResultAppended(r, "Error: MCP client not connected")
           /\ GoesOn(r)

\* C6: a tool call that is processed while the connector is absent or not
\* connected is not handed to call_tool, gets the tool result "Error: MCP
\* client not connected", and the run goes on with the next call of the round.
C6_NotConnectedResult == [][\A r \in Runs : C6_Step(r)]_vars

\* the connector went away in the middle of a round: the first call was
\* answered by the tool, the second got the placeholder, and the model was
\* invoked again
C6_Witness ==
    \E p \in 1..Len(current_messages[1]) :
        /\ p + 2 <= Len(current_messages[1])
        /\ IsToolRequest(current_messages[1][p])
        /\ current_messages[1][p + 1].content = "EARS is\na notation"
        /\ current_messages[1][p + 2].content = "Error: MCP client not connected"
        /\ mcp_client[1] # None
        /\ Len(completions[1]) = 2

RunErrors == {None, UnsupportedProvider} \cup ModelFailures

C7_Step(r) ==
    (pc[r] = "in_call" /\ inflight[r].status = "raised" /\ RunStepped(r))
        => /\ ResultAppended(r, "Error calling tool: " \o inflight[r].cause)
           /\ raised'[r] = None
           /\ GoesOn(r)

\* C7: a failure of call_tool is turned into the tool result "Error calling
\* tool: <cause>" and the run goes on with the next call or the next
\* completion call; a run raises nothing but the unsupported-provider error
\* and the exception of a completion call.
C7_ToolFailureAbsorbed ==
    /\ [](\A r \in Runs : raised[r] \in RunErrors)
    /\ [][\A r \in Runs : C7_Step(r)]_vars

\* the first call of a round failed, the second was still executed, and the
\* run returned the answer of the next completion call
C7_Witness ==
    \E p \in 1..Len(current_messages[1]) :
        /\ p + 2 <= Len(current_messages[1])
        /\ IsToolRequest(current_messages[1][p])
        /\ current_messages[1][p + 1].content = "Error calling tool: timeout"
        /\ current_messages[1][p + 2].content = "EARS is\na notation"
        /\ pc[1] = "done"
        /\ Len(completions[1]) = 2

UnparseableArguments == {"not json"}

C8_Step(r) ==
    (pc[r] = "tools" /\ CurrentCall(r).arguments \in UnparseableArguments
        /\ mcp_client[r] # None /\ session # None /\ RunStepped(r))
        => /\ mcp_calls' = Append(mcp_calls,
                [run |-> r, name |-> CurrentCall(r).name, arguments |-> {},
                 tool_call |-> CurrentCall(r)])
           /\ pc'[r] = "in_call"
           /\ raised'[r] = None

\* the calls with unparseable arguments of finished rounds have their result
UnparseableAnswered(r) ==
    LET cm == current_messages[r] IN
    \A p \in 1..Len(cm) : \A k \in 1..Len(cm[p].tool_calls) :
        (cm[p].role = "assistant" /\ cm[p].tool_calls[k].arguments \in UnparseableArguments
            /\ (pc[r] \in {"loop", "done", "raised"} \/ p # LastRequest(r)))
            => /\ p + k <= Len(cm)
               /\ cm[p + k].role = "tool"
               /\ cm[p + k].tool_call_id = cm[p].tool_calls[k].id

\* C8: a tool call with unparseable arguments raises nothing: with a
\* connected connector call_tool is invoked for it with the empty argument
\* set, and the call gets its tool result.
C8_UnparseableArguments ==
    /\ [](\A r \in Runs : raised[r] \in RunErrors /\ UnparseableAnswered(r))
    /\ [][\A r \in Runs : C8_Step(r)]_vars

C8_Witness ==
    /\ \E i \in 1..Len(mcp_calls) :
        /\ mcp_calls[i].tool_call.arguments = "not json"
        /\ mcp_calls[i].arguments = {}
    /\ \E p \in 1..Len(current_messages[1]) :
        /\ current_messages[1][p].role = "tool"
        /\ current_messages[1][p].tool_call_id = "call_2"
        /\ current_messages[1][p].content = "EARS is\na notation"
    /\ pc[1] = "done"

Ended(r) == pc[r] \in {"off", "done", "raised"}

\* C9: every run ends, by a result or by an exception, after at most
\* max_iterations + 1 completion calls.
C9_Terminates ==
    /\ [](\A r \in Runs : Len(completions[r]) <= max_iterations[r] + 1)
    /\ <>(\A r \in Runs : Ended(r))

C9_Witness ==
    /\ pc[1] = "done"
    /\ max_iterations[1] = MaxIterations
    /\ Len(completions[1]) = MaxIterations + 1
    /\ iteration[1] = MaxIterations

SchemasOf(offered) == IF offered = <<>> THEN <<>> ELSE offered[1]

\* C10: every completion call of the loop is offered the tool schemas the
\* run was given, whatever has become of the connector's catalog, and the
\* forced call after the loop is offered none.
C10_SchemasFixed ==
    \A r \in Runs : \A i \in 1..Len(completions[r]) :
        /\ i <= max_iterations[r] => SchemasOf(completions[r][i].tools) = tools[r]
        /\ i > max_iterations[r] =>
            /\ completions[r][i].tools = <<>>
            /\ completions[r][i].tool_choice = None

\* the connector lost its catalog during the first round; the second
\* completion call offered the schemas of the start, the forced call none
C10_Witness ==
    /\ pc[1] = "done"
    /\ max_iterations[1] = 2
    /\ Len(completions[1]) = 3
    /\ tools[1] # <<>>
    /\ tools_cache = <<>>
    /\ ~NoConnectorCall(1)
    /\ SchemasOf(completions[1][2].tools) = tools[1]
    /\ completions[1][3].tools = <<>>

----------------------------------------------------------------------------
(* mcp_to_litellm_tools on every short list of descriptors *)

MaxTools == 3

\* descriptors with and without a description, two of them of one name
ToolPool ==
    { Catalog[1], Catalog[2],
      Tool("search_requirements", "", EmptySchema),
      Tool("get_glossary", "Glossary of terms", EmptySchema) }

RECURSIVE SeqsUpTo(_, _)
SeqsUpTo(S, n) ==
    IF n = 0 THEN { <<>> }
    ELSE SeqsUpTo(S, n - 1) \cup
         { Append(s, x) : s \in { t \in SeqsUpTo(S, n - 1) : Len(t) = n - 1 }, x \in S }

TranslateInit ==
    /\ TypeShape
    /\ \A r \in Runs : RunOff(r) /\ RunFresh(r)
    /\ NeverConnected
    /\ mcp_calls = <<>>
    /\ conn_log = <<>>
    /\ mcp_tools \in SeqsUpTo(ToolPool, MaxTools)
    /\ litellm_tools = Nothing
    /\ ChatIdle
    /\ DbEmpty

\* the call mcp_to_litellm_tools(mcp_tools) (main.py:224)
Translate ==
    /\ litellm_tools = Nothing
    /\ litellm_tools' = Some(mcp_to_litellm_tools(mcp_tools))
    /\ UNCHANGED <<mcp_tools, notTranslatorVars>>

TranslateNext == Translate

TranslateSpec == TranslateInit /\ [][TranslateNext]_vars

\* C14: a list of N descriptors is translated to N function schemas in the
\* same order, the i-th with the name and the unchanged parameter schema of
\* the i-th descriptor and with its description, or the empty string where
\* the descriptor has none; no descriptor is merged or dropped, two of one
\* name included.
C14_Translation ==
    litellm_tools # Nothing =>
        LET schemas == litellm_tools[1]
        IN /\ Len(schemas) = Len(mcp_tools)
           /\ \A i \in 1..Len(mcp_tools) :
                /\ schemas[i].type = "function"
                /\ schemas[i].function.name = mcp_tools[i].name
                /\ schemas[i].function.parameters = mcp_tools[i].inputSchema
                /\ schemas[i].function.description =
                      IF mcp_tools[i].description = None THEN ""
                      ELSE mcp_tools[i].description

\* three descriptors were translated, two of them of one name and one
\* without a description
C14_Witness ==
    /\ litellm_tools # Nothing
    /\ Len(mcp_tools) = 3
    /\ mcp_tools[1].name = mcp_tools[3].name
    /\ mcp_tools[1] # mcp_tools[3]
    /\ mcp_tools[2].description = None
    /\ Len(litellm_tools[1]) = 3

----------------------------------------------------------------------------
(* MCPClient alone: any sequence of its operations on one connector, each  *)
(* operation run to its end before the next begins                         *)

MaxOps == 4

\* what session.list_tools may return
Catalogs == { Catalog, <<Catalog[1]>> }

\* an operation as called: its name, the exception it raised (None when it
\* returned), the value it returned, the requests it sent to the server, and
\* the catalog the server answered to list_tools, if it did
Entry(op, error, value, remote, listed) ==
    [op |-> op, error |-> error, value |-> value, remote |-> remote, listed |-> listed]

Logged(entry) ==
    /\ Len(conn_log) < MaxOps
    /\ conn_log' = Append(conn_log, entry)

\* faulty variant: the fetched catalog is not stored
FetchedCache_NotStored(catalog) == tools_cache

\* mcp_client.py:102 and 187: self._tools_cache = await self.session.list_tools()
FetchedCache(catalog) == Some(catalog)

\* mcp_client.py:89-96: both contexts are entered on the stack of __init__
Entered(stack) == stack \o <<Transport, RemoteSession>>

\* MCPClient.connect where streamablehttp_client or ClientSession cannot be
\* entered (mcp_client.py:89-96): nothing is assigned; the transport stays on
\* the stack when it was entered
ConnectFailsEarly ==
    /\ Logged(Entry("connect", "ConnectError", <<>>, <<>>, Nothing))
    /\ \/ UNCHANGED _exit_stack
       \/ _exit_stack' = Append(_exit_stack, Transport)
    /\ UNCHANGED <<session, tools_cache, _server_url, mcp_calls, notConnVars>>

\* MCPClient.connect where session.initialize raises (mcp_client.py:99):
\* self.session was assigned at line 94
ConnectFailsInitialize ==
    /\ Logged(Entry("connect", "InitializeError", <<>>, <<"initialize">>, Nothing))
    /\ session' = "session"
    /\ _exit_stack' = Entered(_exit_stack)
    /\ UNCHANGED <<tools_cache, _server_url, mcp_calls, notConnVars>>

\* MCPClient.connect where session.list_tools raises (mcp_client.py:102)
ConnectFailsListTools ==
    /\ Logged(Entry("connect", "ListToolsError", <<>>, <<"initialize", "list_tools">>, Nothing))
    /\ session' = "session"
    /\ _exit_stack' = Entered(_exit_stack)
    /\ UNCHANGED <<tools_cache, _server_url, mcp_calls, notConnVars>>

\* MCPClient.connect running to its end (mcp_client.py:81-105)
ConnectSucceeds ==
    /\ \E catalog \in Catalogs :
        /\ Logged(Entry("connect", None, <<>>, <<"initialize", "list_tools">>, Some(catalog)))
        /\ tools_cache' = FetchedCache(catalog)
    /\ session' = "session"
    /\ _exit_stack' = Entered(_exit_stack)
    /\ _server_url' = ServerUrl
    /\ UNCHANGED <<mcp_calls, notConnVars>>

\* mcp_client.py:124-127, the value MCPClient.list_tools returns
list_tools ==
    IF ~is_connected THEN <<>>
    ELSE IF tools_cache # Nothing THEN tools_cache[1] ELSE <<>>

\* MCPClient.list_tools
ListTools ==
    /\ Logged(Entry("list_tools", None, list_tools, <<>>, Nothing))
    /\ UNCHANGED <<connVars, mcp_calls, notConnVars>>

\* faulty variant: the call is sent without looking at the session
CallToolRefused_Never == FALSE

\* mcp_client.py:149
CallToolRefused == ~is_connected

DirectCall == ToolCall("direct", "search_requirements", "{\"query\": \"ears\"}")

\* MCPClient.call_tool (mcp_client.py:149-160)
CallTool ==
    IF CallToolRefused
    THEN /\ Logged(Entry("call_tool", NotConnectedError, <<>>, <<>>, Nothing))
         /\ UNCHANGED <<connVars, mcp_calls, notConnVars>>
    ELSE /\ mcp_calls' = Append(mcp_calls,
                [run |-> 0, name |-> DirectCall.name,
                 arguments |-> ParseArguments(DirectCall.arguments),
                 tool_call |-> DirectCall])
         /\ \/ \E res \in ToolResults :
                 Logged(Entry("call_tool", None, res.content, <<"call_tool">>, Nothing))
            \/ \E cause \in ToolFailures :
                 Logged(Entry("call_tool", cause, <<>>, <<"call_tool">>, Nothing))
         /\ UNCHANGED <<connVars, notConnVars>>

\* MCPClient.refresh_tools (mcp_client.py:183-189)
RefreshTools ==
    IF ~is_connected
    THEN /\ Logged(Entry("refresh_tools", None, <<>>, <<>>, Nothing))
         /\ UNCHANGED <<connVars, mcp_calls, notConnVars>>
    ELSE /\ \/ \E catalog \in Catalogs :
                 /\ Logged(Entry("refresh_tools", None, catalog, <<"list_tools">>, Some(catalog)))
                 /\ tools_cache' = FetchedCache(catalog)
            \/ /\ Logged(Entry("refresh_tools", "ListToolsError", <<>>, <<"list_tools">>, Nothing))
               /\ UNCHANGED tools_cache
         /\ UNCHANGED <<session, _server_url, _exit_stack, mcp_calls, notConnVars>>

\* MCPClient.disconnect (mcp_client.py:169-174)
ConnDisconnect ==
    /\ Logged(Entry("disconnect", None, <<>>, <<>>, Nothing))
    /\ ClearState
    /\ UNCHANGED <<mcp_calls, notConnVars>>

\* MCPClient.__init__ (mcp_client.py:37-42), no run under way
ConnInit ==
    /\ TypeShape
    /\ \A r \in Runs : RunOff(r) /\ RunFresh(r)
    /\ NeverConnected
    /\ mcp_calls = <<>>
    /\ conn_log = <<>>
    /\ TranslatorIdle
    /\ ChatIdle
    /\ DbEmpty

ConnNext ==
    \/ ConnectFailsEarly
    \/ ConnectFailsInitialize
    \/ ConnectFailsListTools
    \/ ConnectSucceeds
    \/ ListTools
    \/ CallTool
    \/ RefreshTools
    \/ ConnDisconnect

ConnSpec == ConnInit /\ [][ConnNext]_vars

----------------------------------------------------------------------------
(* Properties of MCPClient *)

Fetched(entry) == entry.error = None /\ entry.listed # Nothing

\* the catalog of the most recent successful connect or refresh_tools of
\* the log since its last disconnect, if there is one
RECURSIVE LastFetched(_)
LastFetched(log) ==
    IF log = <<>> THEN Nothing
    ELSE IF Last(log).op = "disconnect" THEN Nothing
    ELSE IF Fetched(Last(log)) THEN Last(log).listed
    ELSE LastFetched(SubSeq(log, 1, Len(log) - 1))

Before(log) == SubSeq(log, 1, Len(log) - 1)

\* the step is the operation op, called and run to its end
Called(op) == conn_log' # conn_log /\ Last(conn_log').op = op

C12_CallToolNotConnected ==
    [][ Called("call_tool") /\ session = None =>
          /\ Last(conn_log').error = NotConnectedError
          /\ Last(conn_log').remote = <<>>
          /\ mcp_calls' = mcp_calls ]_vars

\* call_tool reached the server while connected and was refused after the
\* disconnect
C12_Witness ==
    /\ Len(conn_log) = 4
    /\ conn_log[1].op = "connect" /\ conn_log[1].error = None
    /\ conn_log[2].op = "call_tool" /\ conn_log[2].remote = <<"call_tool">>
    /\ conn_log[3].op = "disconnect"
    /\ conn_log[4].op = "call_tool" /\ conn_log[4].error = NotConnectedError
    /\ Len(mcp_calls) = 1

----------------------------------------------------------------------------
(* Texts as Python sees them: sequences of characters *)

\* the characters of the texts the handlers search
Chars(text) ==
    CASE text = "litellm.completion failed" ->
           <<"l", "i", "t", "e", "l", "l", "m", ".", "c", "o", "m", "p", "l", "e", "t", "i", "o", "n", " ", "f", "a", "i", "l", "e", "d">>
      [] text = "Rate limit reached" ->
           <<"R", "a", "t", "e", " ", "l", "i", "m", "i", "t", " ", "r", "e", "a", "c", "h", "e", "d">>
      [] text = "Invalid API Key" ->
           <<"I", "n", "v", "a", "l", "i", "d", " ", "A", "P", "I", " ", "K", "e", "y">>
      [] text = "insufficient_quota" ->
           <<"i", "n", "s", "u", "f", "f", "i", "c", "i", "e", "n", "t", "_", "q", "u", "o", "t", "a">>
      [] text = "Toxic content detected" ->
           <<"T", "o", "x", "i", "c", " ", "c", "o", "n", "t", "e", "n", "t", " ", "d", "e", "t", "e", "c", "t", "e", "d">>
      [] text = "Network error" ->
           <<"N", "e", "t", "w", "o", "r", "k", " ", "e", "r", "r", "o", "r">>
      [] text = "quota" ->
           <<"q", "u", "o", "t", "a">>
      [] text = "rate" ->
           <<"r", "a", "t", "e">>
      [] text = "limit" ->
           <<"l", "i", "m", "i", "t">>
      [] text = "invalid" ->
           <<"i", "n", "v", "a", "l", "i", "d">>
      [] text = "key" ->
           <<"k", "e", "y">>
      [] text = "toxic" ->
           <<"t", "o", "x", "i", "c">>
      [] text = "validation" ->
           <<"v", "a", "l", "i", "d", "a", "t", "i", "o", "n">>

ascii_uppercase == <<"A", "B", "C", "D", "E", "F", "G", "H", "I", "J", "K", "L", "M", "N", "O", "P", "Q", "R", "S", "T", "U", "V", "W", "X", "Y", "Z">>

ascii_lowercase == <<"a", "b", "c", "d", "e", "f", "g", "h", "i", "j", "k", "l", "m", "n", "o", "p", "q", "r", "s", "t", "u", "v", "w", "x", "y", "z">>

\* str.lower
lower(cs) ==
    [i \in 1..Len(cs) |->
        IF \E k \in 1..26 : ascii_uppercase[k] = cs[i]
        THEN ascii_lowercase[CHOOSE k \in 1..26 : ascii_uppercase[k] = cs[i]]
        ELSE cs[i]]

\* needle in hay
Contains(hay, needle) ==
    \E i \in 1..(Len(hay) - Len(needle) + 1) :
        SubSeq(hay, i, i + Len(needle) - 1) = needle

\* keyword in text.lower()
InLower(keyword, text) == Contains(lower(Chars(text)), Chars(keyword))

----------------------------------------------------------------------------
(* The chat handler (main.py:176-293) with guardrails.py and database.py  *)

DefaultMaxIterations == 5

HistoryLimit == 10

ToxicContentDetected == "Exception: Toxic content detected"

NetworkError == "RuntimeError: Network error"

PolicyViolation == "ValueError: Your message contains content that violates our usage policy."

\* str(e)
ExceptionMessage(e) ==
    CASE e = UnsupportedProvider -> "Unsupported provider"
      [] e = ModelInvocationError -> "litellm.completion failed"
      [] e = RateLimitError -> "Rate limit reached"
      [] e = AuthenticationError -> "Invalid API Key"
      [] e = QuotaError -> "insufficient_quota"
      [] e = ToxicContentDetected -> "Toxic content detected"
      [] e = NetworkError -> "Network error"
      [] e = PolicyViolation ->
           "Your message contains content that violates our usage policy."

\* isinstance(e, ValueError)
IsValueError(e) == e \in {UnsupportedProvider, PolicyViolation}

OnTopicMessage == "What is EARS notation?"

OffTopicMessage == "What's the best recipe for pizza?"

ToxicMessage == "Some toxic content here"

\* what self._toxicity_guard.validate does with a message: it returns
\* ("pass") or raises
ToxicityGuard(message) ==
    IF message = ToxicMessage THEN {ToxicContentDetected} ELSE {"pass", NetworkError}

\* what self._topic_guard.validate does with a message: a result with
\* validation_passed true or false, or an exception
TopicGuard(message) ==
    IF message = OffTopicMessage THEN {"failed"} ELSE {"passed", NetworkError}

GuardrailResult(error, is_on_topic) == [raised |-> error, is_on_topic |-> is_on_topic]

\* faulty variant: toxic content is flagged, not raised
InputValidate_FlagOnly(toxicity, topic) == GuardrailResult(None, topic # "failed")

\* InputGuardrails.validate (guardrails.py:146-202) for one outcome of each guard
InputValidate(toxicity, topic) ==
    IF toxicity # "pass"
    THEN IF InLower("toxic", ExceptionMessage(toxicity))
            \/ InLower("validation", ExceptionMessage(toxicity))
         THEN GuardrailResult(PolicyViolation, TRUE)
         ELSE GuardrailResult(toxicity, TRUE)
    ELSE GuardrailResult(None, topic # "failed")

\* what OutputGuardrails.validate may return for a text (guardrails.py:291-354):
\* the text, or the text with PII redacted or toxic content sanitized
OutputValidate(llm_output) ==
    { [content |-> llm_output, pii_detected |-> FALSE, toxicity_detected |-> FALSE],
      [content |-> "<REDACTED>", pii_detected |-> TRUE, toxicity_detected |-> FALSE] }

HistoryMessage(i) ==
    [role |-> IF i % 2 = 1 THEN "user" ELSE "assistant", content |-> "turn " \o ToString(i)]

History(n) == [i \in 1..n |-> HistoryMessage(i)]

SessionIds == {"session-1"}

Requests ==
    [message : {OnTopicMessage, OffTopicMessage, ToxicMessage},
     session_id : SessionIds,
     provider : ProviderInputs,
     history : {History(0), History(MaxHistory)}]

RedirectSystemMessage == Message("system", "REDIRECT_SYSTEM_MESSAGE", <<>>, None)

\* request.history[-10:]
LastOf(history, n) ==
    IF Len(history) <= n THEN history ELSE SubSeq(history, Len(history) - n + 1, Len(history))

\* faulty variant: the whole history is sent
Transcript_WholeHistory(system, history, message) ==
    <<system>> \o [i \in 1..Len(history) |->
                     Message(history[i].role, history[i].content, <<>>, None)]
               \o <<UserMessage(message)>>

\* main.py:219, 223 and 233-236
Transcript(system, history, message) ==
    <<system>> \o [i \in 1..Len(LastOf(history, HistoryLimit)) |->
                     Message(LastOf(history, HistoryLimit)[i].role,
                             LastOf(history, HistoryLimit)[i].content, <<>>, None)]
               \o <<UserMessage(message)>>

HTTPException(status_code, detail) ==
    [status_code |-> status_code, detail |-> detail, body |-> NoBody]

\* what FastAPI answers when the handler raises anything else
InternalServerError == HTTPException(500, "Internal Server Error")

\* faulty variant: the text is searched as it is, not in lower case
ErrorResponse_CaseSensitive(e, requested) ==
    IF IsValueError(e) THEN HTTPException(400, ExceptionMessage(e))
    ELSE IF Contains(Chars(ExceptionMessage(e)), Chars("quota"))
    THEN HTTPException(402, "API quota exceeded for " \o requested
                            \o ". Please check your billing.")
    ELSE IF Contains(Chars(ExceptionMessage(e)), Chars("rate"))
            /\ Contains(Chars(ExceptionMessage(e)), Chars("limit"))
    THEN HTTPException(429, "Rate limit exceeded for " \o requested \o ". Try again later.")
    ELSE IF Contains(Chars(ExceptionMessage(e)), Chars("invalid"))
            /\ Contains(Chars(ExceptionMessage(e)), Chars("key"))
    THEN HTTPException(401, "Invalid API key for " \o requested
                            \o ". Check your configuration.")
    ELSE HTTPException(500, "LLM error: " \o ExceptionMessage(e))

\* main.py:246-267
ErrorResponse(e, requested) ==
    IF IsValueError(e) THEN HTTPException(400, ExceptionMessage(e))
    ELSE IF InLower("quota", ExceptionMessage(e))
            \/ InLower("insufficient_quota", ExceptionMessage(e))
    THEN HTTPException(402, "API quota exceeded for " \o requested
                            \o ". Please check your billing.")
    ELSE IF InLower("rate", ExceptionMessage(e)) /\ InLower("limit", ExceptionMessage(e))
    THEN HTTPException(429, "Rate limit exceeded for " \o requested \o ". Try again later.")
    ELSE IF InLower("invalid", ExceptionMessage(e)) /\ InLower("key", ExceptionMessage(e))
    THEN HTTPException(401, "Invalid API key for " \o requested
                            \o ". Check your configuration.")
    ELSE HTTPException(500, "LLM error: " \o ExceptionMessage(e))

\* the fields of models.ChatResponse (models.py:37-39)
ChatResponseFields == {"response", "session_id", "tools_used"}

\* ChatResponse(**kwargs): a pydantic model keeps its declared fields and
\* ignores every other keyword
ChatResponse(kwargs) == [f \in (DOMAIN kwargs) \cap ChatResponseFields |-> kwargs[f]]

SessionRow(id) == [id |-> id, created_at |-> now, last_activity |-> now]

\* database.py:161-170
get_or_create_session(session_id) ==
    IF \E row \in sessions : row.id = session_id
    THEN UNCHANGED sessions
    ELSE sessions' = sessions \cup {SessionRow(session_id)}

\* faulty variant: the row is added to the database session and never committed
save_message_NotCommitted(session_id, role, content) == UNCHANGED chat_messages

\* database.py:173-185
save_message(session_id, role, content) ==
    chat_messages' = Append(chat_messages,
        [session_id |-> session_id, role |-> role, content |-> content, created_at |-> now])

\* request.state.session_id of a request without cookie (main.py:126-131)
StateSessionId == "session-of-cookie"

\* main.py:194: request.session_id or req.state.session_id
SessionIdOf(c) ==
    IF request[c].session_id = None THEN StateSessionId ELSE request[c].session_id

\* main.py:214-245: the transcript and the tools are built and the run is called
CallRun(c, use_redirect) ==
    /\ was_redirected' = [was_redirected EXCEPT ![c] = use_redirect]
    /\ messages' = [messages EXCEPT ![c] =
          Transcript(IF use_redirect THEN RedirectSystemMessage ELSE SystemMessage,
                     request[c].history, request[c].message)]
    /\ tools' = [tools EXCEPT ![c] =
          IF use_redirect THEN <<>>
          ELSE IF is_connected THEN mcp_to_litellm_tools(list_tools) ELSE <<>>]
    /\ mcp_client' = [mcp_client EXCEPT ![c] = IF use_redirect THEN None ELSE Client]
    /\ provider' = [provider EXCEPT ![c] = request[c].provider]
    /\ max_iterations' = [max_iterations EXCEPT ![c] = DefaultMaxIterations]
    /\ pc' = [pc EXCEPT ![c] = "start"]
    /\ chat_pc' = [chat_pc EXCEPT ![c] = "llm"]
    /\ UNCHANGED http_response

Answer(c, response) ==
    /\ http_response' = [http_response EXCEPT ![c] = response]
    /\ chat_pc' = [chat_pc EXCEPT ![c] = "responded"]

\* database.py:161-162: the SELECT of get_or_create_session
SessionStored(session_id) == \E row \in sessions : row.id = session_id

\* main.py:194-197 and database.py:160-164: get_or_create_session up to the
\* result of its SELECT
ChatSelectSession(c) ==
    /\ chat_pc[c] = "begin"
    /\ chat_pc' = [chat_pc EXCEPT ![c] =
          IF SessionStored(SessionIdOf(c)) THEN "input" ELSE "create"]
    /\ UNCHANGED <<uiVars, request, was_redirected, content_filtered, response_text,
                   http_response, guardrails_enabled, dbVars, runVars, argVars, connVars,
                   mcp_calls, conn_log, translatorVars>>

\* database.py:164-170: the row is added and committed; the commit of a row
\* whose id was stored meanwhile (sessions.id is the primary key,
\* database.py:49) raises IntegrityError, which the handler does not catch
ChatCreateSession(c) ==
    /\ chat_pc[c] = "create"
    /\ IF SessionStored(SessionIdOf(c))
       THEN /\ Answer(c, InternalServerError)
            /\ UNCHANGED sessions
       ELSE /\ sessions' = sessions \cup {SessionRow(SessionIdOf(c))}
            /\ chat_pc' = [chat_pc EXCEPT ![c] = "input"]
            /\ UNCHANGED http_response
    /\ UNCHANGED <<uiVars, request, was_redirected, content_filtered, response_text,
                   guardrails_enabled, chat_messages, now, last_cleanup, runVars, argVars,
                   connVars, mcp_calls, conn_log, translatorVars>>

\* main.py:199-245: the input guardrails, then the call of the run or the
\* block of the request
ChatInput(c) ==
    /\ chat_pc[c] = "input"
    /\ IF guardrails_enabled
       THEN \E toxicity \in ToxicityGuard(request[c].message),
               topic \in TopicGuard(request[c].message) :
              LET input_result == InputValidate(toxicity, topic)
              IN IF input_result.raised # None
                 THEN /\ Answer(c, IF IsValueError(input_result.raised)
                                   THEN HTTPException(400, ExceptionMessage(input_result.raised))
                                   ELSE InternalServerError)
                      /\ UNCHANGED <<was_redirected, argVars, pc>>
                 ELSE CallRun(c, ~input_result.is_on_topic)
       ELSE CallRun(c, FALSE)
    /\ UNCHANGED <<uiVars, request, content_filtered, response_text, guardrails_enabled, dbVars,
                   iteration, current_messages, tool_calls, tool_index, inflight, result,
                   raised, completions, connVars, mcp_calls, conn_log, translatorVars>>

\* main.py:246-281: the run has raised or returned; its text goes through
\* the output guardrails
ChatOutput(c) ==
    /\ chat_pc[c] = "llm"
    /\ pc[c] \in {"done", "raised"}
    /\ IF pc[c] = "raised"
       THEN /\ Answer(c, ErrorResponse(raised[c], request[c].provider))
            /\ UNCHANGED <<response_text, content_filtered>>
       ELSE /\ IF guardrails_enabled
               THEN \E output_result \in OutputValidate(result[c]) :
                       /\ response_text' = [response_text EXCEPT ![c] = output_result.content]
                       /\ content_filtered' = [content_filtered EXCEPT ![c] =
                             output_result.pii_detected \/ output_result.toxicity_detected]
               ELSE /\ response_text' = [response_text EXCEPT ![c] = result[c]]
                    /\ UNCHANGED content_filtered
            /\ chat_pc' = [chat_pc EXCEPT ![c] = "save_user"]
            /\ UNCHANGED http_response
    /\ UNCHANGED <<uiVars, request, was_redirected, guardrails_enabled, dbVars, runVars, argVars,
                   connVars, mcp_calls, conn_log, translatorVars>>

\* main.py:284
ChatSaveUser(c) ==
    /\ chat_pc[c] = "save_user"
    /\ save_message(SessionIdOf(c), "user", request[c].message)
    /\ chat_pc' = [chat_pc EXCEPT ![c] = "save_assistant"]
    /\ UNCHANGED <<uiVars, request, was_redirected, content_filtered, response_text, http_response,
                   guardrails_enabled, sessions, now, last_cleanup, runVars, argVars, connVars,
                   mcp_calls, conn_log, translatorVars>>

\* main.py:285-293
ChatSaveAssistant(c) ==
    /\ chat_pc[c] = "save_assistant"
    /\ save_message(SessionIdOf(c), "assistant", response_text[c])
    /\ Answer(c, [status_code |-> 200, detail |-> None,
                  body |-> ChatResponse([response |-> response_text[c],
                                         session_id |-> SessionIdOf(c),
                                         tools_used |-> <<>>,
                                         was_redirected |-> was_redirected[c],
                                         content_filtered |-> content_filtered[c]])])
    /\ UNCHANGED <<uiVars, request, was_redirected, content_filtered, response_text,
                   guardrails_enabled, sessions, now, last_cleanup, runVars, argVars, connVars,
                   mcp_calls, conn_log, translatorVars>>

ChatNext(c) ==
    \/ ChatSelectSession(c)
    \/ ChatCreateSession(c)
    \/ ChatInput(c)
    \/ ChatOutput(c)
    \/ ChatSaveUser(c)
    \/ ChatSaveAssistant(c)

\* one request arrives at a server whose connector is connected or not
ChatInit ==
    /\ TypeShape
    /\ \A r \in Runs : RunOff(r) /\ RunFresh(r)
    /\ \/ NeverConnected
       \/ ConnectedAtStartup
    /\ mcp_calls = <<>>
    /\ conn_log = <<>>
    /\ TranslatorIdle
    /\ chat_pc = [c \in Runs |-> IF c = 1 THEN "begin" ELSE "off"]
    /\ request \in [Runs -> Requests \cup {NoRequest}]
    /\ request[1] \in Requests
    /\ request[2] = NoRequest
    /\ was_redirected = [c \in Runs |-> FALSE]
    /\ content_filtered = [c \in Runs |-> FALSE]
    /\ response_text = [c \in Runs |-> None]
    /\ http_response = [c \in Runs |-> NotAnswered]
    /\ guardrails_enabled \in BOOLEAN
    /\ UiFresh
    /\ DbEmpty

\* the steps of the run of a chat turn: of its DefaultMaxIterations
\* iterations at most MaxChatRounds are tool rounds here, so the loop is
\* never exhausted and the call after the loop (ForcedFinal) is not among them
ChatRunNext(r) ==
    \/ Start(r)
    \/ InvokeModel(r)
    \/ ModelRaises(r)
    \/ ExecuteTool(r)
    \/ SessionCallCompletes(r)
    \/ ResumeAfterCall(r)

ChatSpecNext ==
    \/ \E c \in Runs : ChatNext(c)
    \/ \E r \in Runs : ChatRunNext(r)
    \/ Disconnect

ChatSpec == ChatInit /\ [][ChatSpecNext]_vars

----------------------------------------------------------------------------
(* Properties of the chat handler *)

\* the handler has answered a request whose run raised
RunFailed(c) == chat_pc[c] = "responded" /\ pc[c] = "raised"

ProviderHints(requested) ==
    { "API quota exceeded for " \o requested \o ". Please check your billing.",
      "Rate limit exceeded for " \o requested \o ". Try again later.",
      "Invalid API key for " \o requested \o ". Check your configuration." }

\* C15 as stated: the unsupported-provider error is answered with a client
\* error, and every other exception of the run, those of the quota, rate-limit
\* and invalid-key texts included, with a server error that carries the hint
\* for the provider.
C15_AsStated ==
    \A c \in Runs : RunFailed(c) =>
        IF raised[c] = UnsupportedProvider
        THEN http_response[c].status_code \in 400..499
        ELSE /\ http_response[c].status_code \in 500..599
             /\ http_response[c].detail \in ProviderHints(request[c].provider)

\* C15: a ValueError of the run (the unsupported-provider error) is answered
\* with 400 and its text; any other exception by its text: a quota text with
\* 402, a rate-limit text with 429, an invalid-key text with 401, each with
\* the hint that names the requested provider, and every other text with 500
\* and "LLM error: " followed by the text.
C15_ErrorMapping ==
    \A c \in Runs : RunFailed(c) =>
        LET answer == http_response[c]
            requested == request[c].provider
        IN /\ raised[c] = UnsupportedProvider =>
                answer.status_code = 400 /\ answer.detail = "Unsupported provider"
           /\ raised[c] = QuotaError =>
                /\ answer.status_code = 402
                /\ answer.detail = "API quota exceeded for " \o requested
                                   \o ". Please check your billing."
           /\ raised[c] = RateLimitError =>
                /\ answer.status_code = 429
                /\ answer.detail = "Rate limit exceeded for " \o requested
                                   \o ". Try again later."
           /\ raised[c] = AuthenticationError =>
                /\ answer.status_code = 401
                /\ answer.detail = "Invalid API key for " \o requested
                                   \o ". Check your configuration."
           /\ raised[c] = ModelInvocationError =>
                /\ answer.status_code = 500
                /\ answer.detail = "LLM error: litellm.completion failed"
           /\ answer.body = NoBody

\* the model raised a rate-limit error after a tool round and the handler
\* answered 429
C15_Witness ==
    /\ RunFailed(1)
    /\ raised[1] = RateLimitError
    /\ Len(completions[1]) = 2
    /\ http_response[1].status_code = 429

\* the request has gone through the input guardrails, which were enabled
Guarded(c) == guardrails_enabled /\ chat_pc[c] \notin {"off", "begin", "create", "input"}

StoredFor(c) ==
    SelectSeq(chat_messages, LAMBDA row : row.session_id = request[c].session_id)

\* C16: with guardrails enabled, a request whose message the toxicity guard
\* rejects is answered with status 400, and neither is the model invoked nor
\* the connector called nor a message stored for the session.
C16_ToxicBlocked ==
    \A c \in Runs : Guarded(c) /\ request[c].message = ToxicMessage =>
        /\ chat_pc[c] = "responded"
        /\ http_response[c].status_code = 400
        /\ pc[c] = "off"
        /\ completions[c] = <<>>
        /\ \A k \in 1..Len(mcp_calls) : mcp_calls[k].run # c
        /\ StoredFor(c) = <<>>

\* a toxic message was blocked at a server whose connector is connected and
\* which has made the session's row
C16_Witness ==
    /\ Guarded(1)
    /\ request[1].message = ToxicMessage
    /\ http_response[1].status_code = 400
    /\ is_connected
    /\ \E row \in sessions : row.id = request[1].session_id

\* the request was flagged as off-topic and its run was called
Redirected(c) == Guarded(c) /\ request[c].message = OffTopicMessage /\ pc[c] # "off"

\* C17 as stated: a request flagged as off-topic is handled in redirect mode:
\* the transcript starts with the redirect system message, no completion call
\* offers tool schemas, the connector is not called for the turn, and the
\* response carries the flag was_redirected.
C17_AsStated ==
    \A c \in Runs : Redirected(c) =>
        /\ messages[c][1] = RedirectSystemMessage
        /\ \A i \in 1..Len(completions[c]) :
              /\ completions[c][i].messages[1] = RedirectSystemMessage
              /\ completions[c][i].tools = Nothing
        /\ \A k \in 1..Len(mcp_calls) : mcp_calls[k].run # c
        /\ chat_pc[c] = "responded" /\ http_response[c].status_code = 200 =>
              /\ "was_redirected" \in DOMAIN http_response[c].body
              /\ http_response[c].body["was_redirected"] = TRUE

\* the first HistoryLimit or fewer messages from the end of the history
Trimmed(history) ==
    LET k == IF Len(history) < HistoryLimit THEN Len(history) ELSE HistoryLimit
    IN [i \in 1..k |-> history[Len(history) - k + i]]

\* C19: the transcript handed to the run is the system message, the last 10
\* or fewer history messages in their order, and the user's message; every
\* completion call is sent a transcript whose first message has the role
\* system and whose last message is the user's message at the first call and
\* a tool result at every later call.
C19_TranscriptShape ==
    \A c \in Runs : chat_pc[c] \notin {"off", "begin", "create", "input"} /\ pc[c] # "off" =>
        /\ Len(messages[c]) = Len(Trimmed(request[c].history)) + 2
        /\ messages[c][1].role = "system"
        /\ \A i \in 1..Len(Trimmed(request[c].history)) :
              /\ messages[c][i + 1].role = Trimmed(request[c].history)[i].role
              /\ messages[c][i + 1].content = Trimmed(request[c].history)[i].content
        /\ Last(messages[c]) = UserMessage(request[c].message)
        /\ \A i \in 1..Len(completions[c]) :
              /\ completions[c][i].messages[1].role = "system"
              /\ i = 1 => Last(completions[c][i].messages) = UserMessage(request[c].message)
              /\ i > 1 => Last(completions[c][i].messages).role = "tool"

\* a request with more than 10 history messages went through a tool round
\* and a second completion call
C19_Witness ==
    /\ chat_pc[1] = "responded"
    /\ http_response[1].status_code = 200
    /\ Len(request[1].history) > HistoryLimit
    /\ Len(completions[1]) = 2
    /\ Len(messages[1]) = HistoryLimit + 2
    /\ messages[1][2].content = "turn 2"

----------------------------------------------------------------------------
(* The tables of database.py over some days: sessions are made, messages   *)
(* are saved, and cleanup_expired_sessions runs (main.py:51-61)             *)

MaxDays == 3

MaxMessages == 2

StoredSessionIds == {"session-1", "session-2"}

\* the days given to cleanup_expired_sessions
CleanupDays == {1, 2}

\* a day passes
Tick ==
    /\ now < MaxDays
    /\ now' = now + 1
    /\ UNCHANGED <<sessions, chat_messages, last_cleanup, runVars, argVars, connVars,
                   mcp_calls, conn_log, translatorVars, chatVars>>

\* get_or_create_session(session_id)
GetOrCreateSession ==
    /\ \E session_id \in StoredSessionIds : get_or_create_session(session_id)
    /\ UNCHANGED <<chat_messages, now, last_cleanup, runVars, argVars, connVars,
                   mcp_calls, conn_log, translatorVars, chatVars>>

\* save_message(session_id, "user", ...) for a session that is stored
SaveMessage ==
    /\ Len(chat_messages) < MaxMessages
    /\ \E row \in sessions : save_message(row.id, "user", OnTopicMessage)
    /\ UNCHANGED <<sessions, now, last_cleanup, runVars, argVars, connVars,
                   mcp_calls, conn_log, translatorVars, chatVars>>

\* database.py:227: cutoff = _utc_now() - timedelta(days=days)
Cutoff(days) == now - days

\* database.py:229-231: the rows the DELETE statement matches
Expired(days) == { row \in sessions : row.last_activity < Cutoff(days) }

\* the messages left when the rows are deleted: the foreign key of
\* chat_messages is declared ON DELETE CASCADE (database.py:75-79), which the
\* database enforces or not
MessagesLeft(deleted) ==
    { chat_messages,
      SelectSeq(chat_messages, LAMBDA m : \A row \in deleted : row.id # m.session_id) }

\* cleanup_expired_sessions(days) (database.py:215-238)
CleanupExpiredSessions ==
    /\ \E days \in CleanupDays :
        /\ sessions' = sessions \ Expired(days)
        /\ chat_messages' \in MessagesLeft(Expired(days))
        /\ last_cleanup' = [days |-> days, at |-> now, sessions |-> sessions,
                            chat_messages |-> chat_messages, deleted |-> Expired(days)]
    /\ UNCHANGED <<now, runVars, argVars, connVars, mcp_calls, conn_log, translatorVars,
                   chatVars>>

DbInit ==
    /\ TypeShape
    /\ \A r \in Runs : RunOff(r) /\ RunFresh(r)
    /\ NeverConnected
    /\ mcp_calls = <<>>
    /\ conn_log = <<>>
    /\ TranslatorIdle
    /\ ChatIdle
    /\ DbEmpty

DbNext ==
    \/ Tick
    \/ GetOrCreateSession
    \/ SaveMessage
    \/ CleanupExpiredSessions

DbSpec == DbInit /\ [][DbNext]_vars

\* the day of the last activity of a session among the given messages: the
\* day of its last message, or the day it was made
LastActive(row, stored) ==
    LET days == {row.created_at} \cup
                { stored[k].created_at : k \in { j \in 1..Len(stored) :
                                                   stored[j].session_id = row.id } }
    IN CHOOSE d \in days : \A e \in days : e <= d

\* C18 as stated: cleanup_expired_sessions(days) deletes exactly the sessions
\* that have not been active for more than days days; a session in which a
\* message was saved within the last days days is kept, however old it is.
C18_AsStated ==
    last_cleanup.days > 0 =>
        \A row \in last_cleanup.sessions :
            row \in last_cleanup.deleted
                <=> last_cleanup.at - LastActive(row, last_cleanup.chat_messages)
                       > last_cleanup.days

----------------------------------------------------------------------------
(* The transcript of a run *)

\* the transcript sent with the i-th completion call of run r
Sent(r, i) == completions[r][i].messages

\* C20: the transcript only grows by appends: what is sent with a completion
\* call after the first is what was sent with the call before, followed by
\* one assistant message with the tool calls of that call's response and then
\* one tool result for each of them; no step of the run removes, reorders or
\* rewrites a message.
C20_AppendOnly ==
    /\ [](\A r \in Runs : \A i \in 2..Len(completions[r]) :
            LET n == Len(Sent(r, i - 1))
                calls == completions[r][i - 1].response.tool_calls
            IN /\ calls # <<>>
               /\ Len(Sent(r, i)) = n + 1 + Len(calls)
               /\ SubSeq(Sent(r, i), 1, n) = Sent(r, i - 1)
               /\ Sent(r, i)[n + 1].role = "assistant"
               /\ Sent(r, i)[n + 1].tool_calls = calls
               /\ \A j \in 1..Len(calls) :
                    /\ Sent(r, i)[n + 1 + j].role = "tool"
                    /\ Sent(r, i)[n + 1 + j].tool_call_id = calls[j].id)
    /\ [][\A r \in Runs : pc[r] \notin {"off", "start"} =>
            \/ current_messages'[r] = current_messages[r]
            \/ /\ Len(current_messages'[r]) = Len(current_messages[r]) + 1
               /\ SubSeq(current_messages'[r], 1, Len(current_messages[r]))
                    = current_messages[r]]_vars

\* a run made three completion calls; the third was sent the transcript of
\* the second, an assistant message and two tool results
C20_Witness ==
    /\ Len(completions[1]) = 3
    /\ Len(completions[1][2].response.tool_calls) = 2
    /\ Len(Sent(1, 3)) = Len(Sent(1, 2)) + 3
    /\ pc[1] = "done"

----------------------------------------------------------------------------
(* Order of execution within a round *)

\* the connector calls run r has issued
Issued(r) == Cardinality({ k \in 1..Len(mcp_calls) : mcp_calls[k].run = r })

\* the tool results in the transcript of run r that come from a connector call
Answered(r) ==
    Cardinality({ p \in 1..Len(current_messages[r]) :
                    /\ current_messages[r][p].role = "tool"
                    /\ current_messages[r][p].content # "Error: MCP client not connected" })

\* the step hands a tool call of run r to the connector
IssuesCall(r) == mcp_calls' # mcp_calls /\ Last(mcp_calls').run = r

\* the step is a completion call of run r
InvokesModel(r) == Len(completions'[r]) > Len(completions[r])

\* C21: the calls of a round are executed one at a time in the order
\* received: a run has at most one connector call whose result is not yet in
\* the transcript; the call handed to the connector is the k-th of the round
\* exactly when the results of the k - 1 calls before it have been appended;
\* and a completion call that follows a round is made only when the round's
\* last tool result is the last message of the transcript.
C21_Sequential ==
    /\ [](\A r \in Runs :
            /\ Issued(r) - Answered(r) \in {0, 1}
            /\ Issued(r) - Answered(r) = 1 <=> pc[r] = "in_call")
    /\ [][\A r \in Runs : IssuesCall(r) =>
            LET p == LastRequest(r)
                k == Len(current_messages[r]) - p + 1
            IN /\ p > 0
               /\ k \in 1..Len(current_messages[r][p].tool_calls)
               /\ Last(mcp_calls').tool_call = current_messages[r][p].tool_calls[k]
               /\ \A j \in 1..(k - 1) :
                    /\ current_messages[r][p + j].role = "tool"
                    /\ current_messages[r][p + j].tool_call_id
                          = current_messages[r][p].tool_calls[j].id]_vars
    /\ [][\A r \in Runs : InvokesModel(r) /\ LastRequest(r) > 0 =>
            LET p == LastRequest(r)
            IN /\ Len(current_messages[r]) = p + Len(current_messages[r][p].tool_calls)
               /\ Last(current_messages[r]).role = "tool"
               /\ Last(current_messages[r]).tool_call_id
                     = Last(current_messages[r][p].tool_calls).id]_vars

\* both calls of a round went to the connector, the second after the result
\* of the first, and the model was invoked again after the second result
C21_Witness ==
    /\ Len(mcp_calls) = 2
    /\ Len(tool_calls[1]) = 2
    /\ mcp_calls[1].run = 1 /\ mcp_calls[2].run = 1
    /\ mcp_calls[1].tool_call = tool_calls[1][1]
    /\ mcp_calls[2].tool_call = tool_calls[1][2]
    /\ Len(completions[1]) = 2
    /\ Answered(1) = 2

\* C22 as stated: the assistant message appended for a response with tool
\* calls carries those calls and no content, so that no transcript sent to a
\* completion call holds a text that came with tool calls.
C22_AsStated ==
    \A r \in Runs :
        /\ \A p \in 1..Len(current_messages[r]) :
              IsToolRequest(current_messages[r][p]) => current_messages[r][p].content = None
        /\ \A i \in 1..Len(completions[r]) : \A p \in 1..Len(Sent(r, i)) :
              IsToolRequest(Sent(r, i)[p]) => Sent(r, i)[p].content = None

----------------------------------------------------------------------------
(* The stored history of a chat turn *)

\* the handler has answered request c with the given kind of status
Succeeded(c) == chat_pc[c] = "responded" /\ http_response[c].status_code = 200

Failed(c) == chat_pc[c] = "responded" /\ http_response[c].status_code # 200

\* C23: a turn stores nothing before it has the filtered text of its run; a
\* turn that succeeded has stored exactly two messages for its session, the
\* user's message and then the assistant text as the output guardrails
\* returned it, which is the text of the response; a turn that failed (blocked
\* input, unsupported provider, exception of a completion call) has stored
\* none.
C23_HistoryOnSuccess ==
    \A c \in Runs :
        LET stored == StoredFor(c) IN
        /\ chat_pc[c] \in {"begin", "create", "input", "llm", "save_user"} => stored = <<>>
        /\ Failed(c) => stored = <<>>
        /\ Succeeded(c) =>
              /\ Len(stored) = 2
              /\ stored[1].role = "user" /\ stored[1].content = request[c].message
              /\ stored[2].role = "assistant"
              /\ stored[2].content = http_response[c].body.response
              /\ IF guardrails_enabled
                 THEN \E output_result \in OutputValidate(result[c]) :
                         stored[2].content = output_result.content
                 ELSE stored[2].content = result[c]

\* a turn went through a tool round, its answer was redacted by the output
\* guardrails, and the redacted text was stored and returned
C23_Witness ==
    /\ Succeeded(1)
    /\ Len(completions[1]) = 2
    /\ result[1] = "text 2"
    /\ Len(StoredFor(1)) = 2
    /\ StoredFor(1)[2].content = "<REDACTED>"
    /\ http_response[1].body.response = "<REDACTED>"

----------------------------------------------------------------------------
(* Two runs at a time: two chat turns call call_llm_with_mcp_tools with    *)
(* message lists of the same content and the one connector of main.py:33   *)

MaxPairIterations == 1

PairInit ==
    /\ TypeShape
    /\ \A r \in Runs :
          /\ pc[r] = "start"
          /\ provider[r] = "claude"
          /\ messages[r] \in SeedTranscripts
          /\ tools[r] = mcp_to_litellm_tools(Catalog)
          /\ mcp_client[r] = Client
          /\ max_iterations[r] = MaxPairIterations
          /\ RunFresh(r)
    /\ messages[1] = messages[2]
    /\ ConnectedAtStartup
    /\ mcp_calls = <<>>
    /\ conn_log = <<>>
    /\ TranslatorIdle
    /\ ChatIdle
    /\ DbEmpty

PairSpec == PairInit /\ [][Next]_vars

\* the transcript of run r is the list it was called with, followed, for each
\* of its own responses with tool calls, by the assistant message of that
\* response and the tool results of its calls so far
RECURSIVE OwnShape(_, _)
OwnShape(r, i) ==
    IF i = 0 THEN [p \in 1..Len(messages[r]) |-> <<messages[r][p].role, None>>]
    ELSE LET response == completions[r][i].response
             due == IF i = Len(completions[r]) /\ InRound(r)
                    THEN tool_index[r] - 1 ELSE Len(response.tool_calls)
         IN IF ~CarriesToolCalls(response) THEN OwnShape(r, i - 1)
            ELSE OwnShape(r, i - 1) \o <<<<"assistant", response.content>>>>
                 \o [k \in 1..due |-> <<"tool", response.tool_calls[k].id>>]

\* a message by its role and what tells whose it is: the text of the
\* response for an assistant message, the call id for a tool result
ShapeOf(m) ==
    <<m.role, IF m.role = "tool" THEN m.tool_call_id
              ELSE IF m.role = "assistant" /\ m.tool_calls # <<>> THEN m.content
              ELSE None>>

\* C24: the transcript of a run holds the messages of the caller's list and
\* the assistant and tool messages of its own rounds and no other, also when
\* another run with a list of the same content and the same connector is
\* under way; a step that appends to the transcript of one run leaves the
\* transcript of the other as it is; and the caller's list is never changed.
C24_Independent ==
    /\ [](\A r \in Runs : pc[r] \notin {"off", "start", "raised"} \/ completions[r] # <<>> =>
            /\ [p \in 1..Len(current_messages[r]) |-> ShapeOf(current_messages[r][p])]
                  = OwnShape(r, Len(completions[r]))
            /\ SubSeq(current_messages[r], 1, Len(messages[r])) = messages[r]
            /\ \A i \in 1..Len(completions[r]) :
                  Sent(r, i) = SubSeq(current_messages[r], 1, Len(Sent(r, i))))
    /\ [][/\ messages' = messages
          /\ \A r \in Runs : \A q \in Runs \ {r} :
                (pc[r] # "start" /\ current_messages'[r] # current_messages[r])
                    => current_messages'[q] = current_messages[q]]_vars

\* two runs were under way at once with different tool calls, and each ended
\* with a transcript of its own round
C24_Witness ==
    /\ pc[1] = "done" /\ pc[2] = "done"
    /\ Len(mcp_calls) = 3
    /\ mcp_calls[1].run = 1 /\ mcp_calls[2].run = 2 /\ mcp_calls[3].run = 1
    /\ Len(current_messages[1]) = Len(messages[1]) + 3
    /\ Len(current_messages[2]) = Len(messages[2]) + 2
    /\ Last(current_messages[2]).tool_call_id = "call_2"

----------------------------------------------------------------------------
(* A connect that fails *)

\* the connects of the log since its last successful one have all failed
RECURSIVE NoneSinceFailure(_)
NoneSinceFailure(log) ==
    IF log = <<>> THEN FALSE
    ELSE IF Last(log).op = "connect" THEN Last(log).error # None
    ELSE NoneSinceFailure(Before(log))

\* C25 as stated: after a connect that failed, at whichever of its steps,
\* and until a connect succeeds, is_connected is false, call_tool raises the
\* not-connected error and list_tools returns the empty sequence.
C25_AsStated ==
    NoneSinceFailure(conn_log) =>
        /\ Last(conn_log).op = "connect" => ~is_connected
        /\ Last(conn_log).op = "call_tool" => Last(conn_log).error = NotConnectedError
        /\ Last(conn_log).op = "list_tools" => Last(conn_log).value = <<>>

----------------------------------------------------------------------------
(* A disconnect in the middle of a round *)

\* the step is a disconnect of a connected connector
Disconnects == session # None /\ session' = None

\* run r is in a round, was given the connector, and the connector is gone
RoundWithoutConnector(r) == InRound(r) /\ mcp_client[r] # None /\ session = None

\* C26: a disconnect changes nothing of a run; a run that is in a round when
\* the connector is gone, before the connection check of a call or with a
\* call in flight, raises nothing: a call in flight ends, and the next step of
\* the run appends one tool result with the id of the current call and goes
\* on to the next call or, after the last, to the next completion call.
C26_DisconnectMidRound ==
    /\ [](\A r \in Runs : raised[r] \in RunErrors)
    /\ [][Disconnects => \A r \in Runs :
            /\ pc'[r] = pc[r]
            /\ current_messages'[r] = current_messages[r]
            /\ inflight'[r] = inflight[r]
            /\ raised'[r] = raised[r]]_vars
    /\ [][\A r \in Runs : RoundWithoutConnector(r) /\ RunStepped(r) =>
            /\ raised'[r] = None
            /\ IF inflight[r].status = "pending"
               THEN /\ pc'[r] = "in_call"
                    /\ inflight'[r].status \in {"returned", "raised"}
                    /\ current_messages'[r] = current_messages[r]
               ELSE /\ Len(current_messages'[r]) = Len(current_messages[r]) + 1
                    /\ SubSeq(current_messages'[r], 1, Len(current_messages[r]))
                          = current_messages[r]
                    /\ Last(current_messages'[r]).role = "tool"
                    /\ Last(current_messages'[r]).tool_call_id = CurrentCall(r).id
                    /\ GoesOn(r)]_vars

\* the connector was disconnected after the first call of a round of two was
\* handed to it: that call failed, the second was not sent, both have their
\* tool result, and the run returned the answer of the next completion call
C26_Witness ==
    /\ pc[1] = "done"
    /\ session = None
    /\ Len(mcp_calls) = 1
    /\ Len(completions[1]) = 2
    /\ Len(completions[1][1].response.tool_calls) = 2
    /\ Len(current_messages[1]) = Len(messages[1]) + 3
    /\ current_messages[1][Len(messages[1]) + 2].content = "Error calling tool: timeout"
    /\ Last(current_messages[1]).content = "Error: MCP client not connected"
    /\ Last(current_messages[1]).tool_call_id = completions[1][1].response.tool_calls[2].id

----------------------------------------------------------------------------
(* The sessions a connector holds open *)

\* the remote sessions entered on the exit stack and not closed
OpenSessions == Cardinality({ k \in 1..Len(_exit_stack) : _exit_stack[k] = RemoteSession })

\* C27 as stated: after any sequence of connects and disconnects the
\* connector holds at most one open remote session, an open session is the
\* one it refers to, and after a disconnect none is open.
C27_AsStated ==
    /\ OpenSessions <= 1
    /\ OpenSessions = 1 => session # None
    /\ (conn_log # <<>> /\ Last(conn_log).op = "disconnect") => OpenSessions = 0

----------------------------------------------------------------------------
(* The chat UI (frontend/app.py) in front of the chat handler: one prompt  *)
(* is submitted and its answer shown                                        *)

UiHistoryLimit == 10

UiMessage(role, content) == [role |-> role, content |-> content]

\* the conversations the UI may hold when a prompt is submitted: none, one
\* turn, or turns beyond the history limits
UiConversations == { History(0), History(2), History(2 * (MaxHistory \div 2)) }

\* frontend/app.py:399-417 (and 366-380 for a quick-start prompt): the prompt
\* is appended to the conversation, then send_chat_message posts it with the
\* last messages of the conversation as history
UiSubmit(c) ==
    /\ chat_pc[c] = "off"
    /\ c = 1
    /\ \E prompt \in {OnTopicMessage, OffTopicMessage, ToxicMessage},
          selected_llm \in ProviderInputs :
          /\ st_messages' = Append(st_messages, UiMessage("user", prompt))
          /\ request' = [request EXCEPT ![c] =
                [message |-> prompt,
                 session_id |-> st_session_id,
                 provider |-> selected_llm,
                 history |-> LastOf(Append(st_messages, UiMessage("user", prompt)),
                                    UiHistoryLimit)]]
    /\ chat_pc' = [chat_pc EXCEPT ![c] = "begin"]
    /\ UNCHANGED <<st_session_id, was_redirected, content_filtered, response_text,
                   http_response, guardrails_enabled, dbVars, runVars, argVars, connVars,
                   mcp_calls, conn_log, translatorVars>>

\* frontend/app.py:81-86: a status of 400 or more is answered to the user
\* as an error text that names the status
UiErrorText(answer) ==
    "*Error: Failed to connect to server: " \o ToString(answer.status_code) \o "*"

\* frontend/app.py:419-426 (and 382-388): the answer is appended to the
\* conversation
UiReceive(c) ==
    /\ chat_pc[c] = "responded"
    /\ IF http_response[c].status_code = 200
       THEN /\ st_messages' = Append(st_messages,
                    UiMessage("assistant", http_response[c].body.response))
            /\ st_session_id' = http_response[c].body.session_id
       ELSE /\ st_messages' = Append(st_messages,
                    UiMessage("assistant", UiErrorText(http_response[c])))
            /\ UNCHANGED st_session_id
    /\ chat_pc' = [chat_pc EXCEPT ![c] = "shown"]
    /\ UNCHANGED <<request, was_redirected, content_filtered, response_text,
                   http_response, guardrails_enabled, dbVars, runVars, argVars, connVars,
                   mcp_calls, conn_log, translatorVars>>

UiInit ==
    /\ TypeShape
    /\ \A r \in Runs : RunOff(r) /\ RunFresh(r)
    /\ \/ NeverConnected
       \/ ConnectedAtStartup
    /\ mcp_calls = <<>>
    /\ conn_log = <<>>
    /\ TranslatorIdle
    /\ chat_pc = [c \in Runs |-> "off"]
    /\ request = [c \in Runs |-> NoRequest]
    /\ was_redirected = [c \in Runs |-> FALSE]
    /\ content_filtered = [c \in Runs |-> FALSE]
    /\ response_text = [c \in Runs |-> None]
    /\ http_response = [c \in Runs |-> NotAnswered]
    /\ guardrails_enabled \in BOOLEAN
    /\ st_messages \in UiConversations
    /\ st_session_id = (IF st_messages = <<>> THEN None ELSE "session-1")
    /\ DbEmpty

UiNext ==
    \/ \E c \in Runs : UiSubmit(c)
    \/ \E c \in Runs : UiReceive(c)
    \/ \E c \in Runs : ChatNext(c)
    \/ \E r \in Runs : ChatRunNext(r)
    \/ Disconnect

UiSpec == UiInit /\ [][UiNext]_vars

\* how often the prompt of request c is a user message of a transcript
PromptCount(c, transcript) ==
    Cardinality({ p \in 1..Len(transcript) :
                    /\ transcript[p].role = "user"
                    /\ transcript[p].content = request[c].message })

\* C28 as stated: the prompt the UI submits is in the transcript of the run,
\* and in every transcript sent with a completion call, exactly once.
C28_AsStated ==
    \A c \in Runs :
        /\ pc[c] # "off" => PromptCount(c, messages[c]) = 1
        /\ \A i \in 1..Len(completions[c]) : PromptCount(c, Sent(c, i)) = 1

----------------------------------------------------------------------------
(* Two chat turns of one session at a time, at a server without connector  *)
(* (main.py:85-87): the handler is suspended at every await                 *)

TwoTurnRequests ==
    { q \in Requests : q.message # ToxicMessage /\ q.history = <<>> }

TwoTurnInit ==
    /\ TypeShape
    /\ \A r \in Runs : RunOff(r) /\ RunFresh(r)
    /\ NeverConnected
    /\ mcp_calls = <<>>
    /\ conn_log = <<>>
    /\ TranslatorIdle
    /\ chat_pc = [c \in Runs |-> "begin"]
    /\ request \in [Runs -> TwoTurnRequests]
    /\ was_redirected = [c \in Runs |-> FALSE]
    /\ content_filtered = [c \in Runs |-> FALSE]
    /\ response_text = [c \in Runs |-> None]
    /\ http_response = [c \in Runs |-> NotAnswered]
    /\ guardrails_enabled \in BOOLEAN
    /\ UiFresh
    /\ sessions \in { {}, { [id |-> sid, created_at |-> 0, last_activity |-> 0] :
                                sid \in SessionIds } }
    /\ chat_messages = <<>>
    /\ now = 0
    /\ last_cleanup = NoCleanup

\* the steps of a run that was given no tool schema
TwoTurnRunNext(r) ==
    \/ Start(r)
    \/ InvokeModel(r)
    \/ ModelRaises(r)

TwoTurnNext ==
    \/ \E c \in Runs : ChatNext(c)
    \/ \E r \in Runs : TwoTurnRunNext(r)

TwoTurnSpec == TwoTurnInit /\ [][TwoTurnNext]_vars

\* request c leaves get_or_create_session in this step
LeavesGetOrCreate(c) ==
    chat_pc[c] \in {"begin", "create"} /\ chat_pc'[c] \notin {"begin", "create"}

\* C29 as stated: get_or_create_session, also when two requests with the
\* same id that is not stored yet run it at a time, leaves exactly one row
\* with that id, and it fails for neither request: each goes on to the input
\* guardrails.
C29_AsStated ==
    [][\A c \in Runs : LeavesGetOrCreate(c) =>
          /\ chat_pc'[c] = "input"
          /\ Cardinality({ row \in sessions' : row.id = SessionIdOf(c) }) = 1]_vars

\* C30 as stated: in the stored messages of a session, every user message
\* that is not the last one is directly followed by an assistant message, the
\* reply of its turn, also when two turns of the session are handled at a
\* time.
C30_AsStated ==
    \A c \in Runs :
        LET stored == StoredFor(c) IN
        \A k \in 1..(Len(stored) - 1) :
            stored[k].role = "user" => stored[k + 1].role = "assistant"

====
